---- MODULE Spec2Model ----
(***************************************************************************)
(* A model of pysgmcmc's BayesianNeuralNetwork (construction, train,       *)
(* predict), of the helper safe_division and of ConstantStepsizeSchedule.  *)
(*                                                                         *)
(* Numbers.  Hyperparameters and iteration counters are integers.  Tensor  *)
(* contents are abstracted to one integer per parameter tensor.  Results   *)
(* of true divisions are kept exact as fractions [num, den]; a fraction    *)
(* whose den is 0 is what numpy returns as inf/nan.                        *)
(***************************************************************************)
EXTENDS Integers, Sequences, FiniteSets, TLC

VARIABLES
    \* ---- BayesianNeuralNetwork object --------------------------------------
    self,             \* hyperparameter fields set by __init__
    is_trained,       \* "unset" (__init__ does not create the attribute) or "True"
    sampled_weights,  \* the ensemble: sequence of samples, a sample = tuple of storage addresses
    model,            \* self.model: tuple of storage addresses of the live parameters (<<>>: no model yet)
    store,            \* storage blocks: address -> contents of one tensor
    stats,            \* x_mean, x_std, y_mean, y_std (<<>> until a train call stores <<v>>)
    pc,               \* position of the caller: "idle", "train_loop", "predict_restore", "predict_forward"
    epoch,            \* train: loop index of the next iteration
    grad,             \* train: per-parameter update the optimizer applies in this call
    test_data,        \* predict: the normalized test input (<<>> outside a call)
    network_outputs,  \* predict: outputs collected so far (<<>> outside a call)
    result,           \* what the latest call returned or raised, when it was a predict call
    \* ---- history (read by the properties only) ----------------------------
    hist,
    \* ---- constructor calls with arbitrary numeric arguments -----------------
    ctor,
    \* ---- safe_division -------------------------------------------------------
    div,
    \* ---- ConstantStepsizeSchedule --------------------------------------------
    sched

vars == <<self, is_trained, sampled_weights, model, store, stats, pc, epoch,
          grad, test_data, network_outputs, result, hist, ctor, div, sched>>

bnnVars == <<self, is_trained, sampled_weights, model, store, stats, pc, epoch,
             grad, test_data, network_outputs, result, hist>>

----------------------------------------------------------------------------
(* Bounds of the model *)
MaxBurnIn == 1
MaxNumSteps == 4
MaxKeepEvery == 2
MaxNumNets == 2
MaxTrainCalls == 2
MaxPredictCalls == 2
MaxHalves == 4
MaxLen == 2
MaxAbs == 2
MaxScheduleValue == 4
MaxScheduleCalls == 5

Min(a, b) == IF a < b THEN a ELSE b
Abs(a) == IF a < 0 THEN -a ELSE a

RECURSIVE SumSeq(_)
SumSeq(s) == IF s = <<>> THEN 0 ELSE Head(s) + SumSeq(Tail(s))

----------------------------------------------------------------------------
(* BayesianNeuralNetwork.__init__ *)

\* The four assert statements of __init__.  They only compare, so they read
\* the same on any numeric type.
InitAsserts(num_steps, burn_in_steps, batch_size, keep_every, num_nets) ==
    /\ num_steps > burn_in_steps
    /\ batch_size > 0
    /\ keep_every > 0
    /\ num_nets > 0

\* __init__ without the cap of lines 215-217.
BNN_initUncapped(num_steps, burn_in_steps, batch_size, keep_every, num_nets, normalize_input, normalize_output) ==
    [burn_in_steps    |-> burn_in_steps,
     batch_size       |-> batch_size,
     keep_every       |-> keep_every,
     num_nets         |-> num_nets,
     num_steps        |-> num_steps - burn_in_steps,
     num_iterations   |-> num_steps,
     normalize_input  |-> normalize_input,
     normalize_output |-> normalize_output]

\* The fields __init__ leaves on the object when the asserts pass.
BNN_init(num_steps, burn_in_steps, batch_size, keep_every, num_nets, normalize_input, normalize_output) ==
    LET capped == Min(num_steps - burn_in_steps, keep_every * num_nets)
    IN  [burn_in_steps    |-> burn_in_steps,
         batch_size       |-> batch_size,
         keep_every       |-> keep_every,
         num_nets         |-> num_nets,
         num_steps        |-> capped,
         num_iterations   |-> capped + burn_in_steps,
         normalize_input  |-> normalize_input,
         normalize_output |-> normalize_output]

\* _keep_sample keeping the last step of every keep_every interval instead of
\* the first.
_keep_sampleAtIntervalEnd(epoch_) ==
    IF epoch_ < self.burn_in_steps
    THEN FALSE
    ELSE LET sample_step == epoch_ - self.burn_in_steps
         IN  (sample_step % self.keep_every) = self.keep_every - 1

\* BayesianNeuralNetwork._keep_sample
_keep_sample(epoch_) ==
    IF epoch_ < self.burn_in_steps
    THEN FALSE
    ELSE LET sample_step == epoch_ - self.burn_in_steps
         IN  (sample_step % self.keep_every) = 0

----------------------------------------------------------------------------
(* Helpers of bayesian_neural_network.py.  Arrays are sequences; every     *)
(* value is counted in units of small_constant, so small_constant is 1.    *)

SmallConstant == 1

\* np.sign
Sign(v) == IF v > 0 THEN 1 ELSE IF v < 0 THEN -1 ELSE 0

\* The denominators safe_division divides by, element by element.
SafeDenominators(y, small_constant) ==
    IF \A i \in DOMAIN y : y[i] = 0
    THEN [i \in DOMAIN y |-> small_constant]
    ELSE [i \in DOMAIN y |-> Sign(y[i]) * small_constant + y[i]]

\* safe_division(x, y, small_constant): np.true_divide, element by element,
\* kept as exact fractions.  y has been broadcast to the shape of x.
safe_division(x, y, small_constant) ==
    LET d == SafeDenominators(y, small_constant)
    IN  [i \in DOMAIN x |-> [num |-> x[i], den |-> d[i]]]

\* np.mean(X, axis=0) and np.std(X, axis=0) of a one-column array of two rows
\* (the training sets of this model have two rows, chosen so that both are
\* whole numbers).
np_mean(X) == (X[1] + X[2]) \div 2
np_std(X) == Abs(X[1] - X[2]) \div 2

\* zero_mean_unit_var_normalization(X, mean, std); mean and std are <<>> for
\* None and <<v>> for a given value.
zero_mean_unit_var_normalization(X, mean, std) ==
    LET m == IF mean = <<>> THEN np_mean(X) ELSE mean[1]
        s == IF std = <<>> THEN np_std(X) ELSE std[1]
    IN  [X_normalized |-> safe_division([i \in DOMAIN X |-> X[i] - m],
                                        [i \in DOMAIN X |-> s], SmallConstant),
         mean |-> m, std |-> s]

\* zero_mean_unit_var_unnormalization applied to a fraction
zero_mean_unit_var_unnormalization(X_normalized, mean, std) ==
    [num |-> X_normalized.num * std + mean * X_normalized.den,
     den |-> X_normalized.den]

----------------------------------------------------------------------------
(* The network and its storage.  A parameter tensor is one storage block;  *)
(* model and every sample are tuples of block addresses, in parameter      *)
(* order.                                                                  *)

\* The parameter tensors of the network, in the order of model.parameters():
\* a weight, then a bias.
Params == 1..2

\* The contents of the blocks a tuple of addresses names.
Values(st, addrs) == [j \in DOMAIN addrs |-> st[addrs[j]]]

\* network_architecture(...): a fresh network.  init_weights draws the weight
\* at random and sets the biases to constants.
FreshNetwork(w0) == [j \in Params |-> IF j = 1 THEN w0 ELSE 0]

\* optimizer.step(): an in-place update of every live parameter.
OptimizerStep(st, m, g) ==
    [a \in DOMAIN st |->
        IF \E j \in DOMAIN m : m[j] = a
        THEN st[a] + g[CHOOSE j \in DOMAIN m : m[j] = a]
        ELSE st[a]]

\* A sample that keeps the parameters' own storage (no copy).
SnapshotShared(st, m) == [store |-> st, sample |-> m]

\* tuple(np.asarray(torch.tensor(parameter.data).numpy()) for parameter in
\* self.network_weights): torch.tensor copies, so every parameter's values
\* go to a new block.
Snapshot(st, m) ==
    [store  |-> st \o [j \in DOMAIN m |-> st[m[j]]],
     sample |-> [j \in DOMAIN m |-> Len(st) + j]]

\* A setter that rebinds a local name and writes nothing.
SetNetworkWeightsRebind(st, m, weights) == st

\* network_weights.setter: parameter.copy_(torch.from_numpy(sample)) for the
\* zipped (parameter, sample) pairs, in place.
SetNetworkWeights(st, m, weights) ==
    LET n == Min(Len(m), Len(weights))
    IN  [a \in DOMAIN st |->
            IF \E j \in 1..n : m[j] = a
            THEN st[weights[CHOOSE j \in 1..n : m[j] = a]]
            ELSE st[a]]

\* self.model(test_data)[:, 0] under no_grad: the network read as weight times
\* input plus biases, on a fraction.
Forward(st, m, t) ==
    LET w == Values(st, m)
    IN  [num |-> w[1] * t.num + SumSeq(Tail(w)) * t.den, den |-> t.den]

----------------------------------------------------------------------------
(* Inputs *)

\* Training sets (x_train, y_train): two rows of one column each.  The second
\* has a constant input column (np.std is 0).
TrainingSets ==
    {[x |-> <<1, 3>>, y |-> <<2, 6>>], [x |-> <<2, 2>>, y |-> <<0, 4>>]}

\* What a train call draws besides its data: the random initial weight of the
\* fresh network (w0) and the per-parameter update its optimizer steps apply
\* (g); the second leaves the weight alone.
Runs == {[w0 |-> 0, g |-> <<1, 2>>], [w0 |-> 1, g |-> <<0, 1>>]}

\* Test inputs of predict.
TestInputs == {0, 1}

NoResult == [kind |-> "none"]
NoStats == [x_mean |-> <<>>, x_std |-> <<>>, y_mean |-> <<>>, y_std |-> <<>>]
NoHist ==
    [num_steps |-> 0,      \* the num_steps argument of __init__
     calls     |-> 0,      \* train calls started
     last      |-> "none", \* the latest train call: "running", "completed" or "raised"
     completed |-> 0,      \* train calls whose loop ran to its end
     predicts  |-> 0,      \* predict calls made
     iters     |-> 0,      \* iterations run by the latest train call
     kept      |-> 0,      \* of those, the ones where _keep_sample was true
     created   |-> <<>>,   \* per snapshot of the ensemble: the live values when it was appended
     entry     |-> <<>>,   \* predict: <<ensemble values, stats>> when the call began
     used      |-> <<>>]   \* predict: per output, the index restored and the live values read

Idle == <<>>

\* The constructor arguments of the end-to-end example of the documentation.
ExampleArgs ==
    [num_steps |-> 30, burn_in_steps |-> 10, keep_every |-> 5, num_nets |-> 100,
     batch_size |-> 4]

BoundedArgs ==
    [num_steps : 1..MaxNumSteps, burn_in_steps : 0..MaxBurnIn,
     keep_every : 1..MaxKeepEvery, num_nets : 1..MaxNumNets, batch_size : {1}]

----------------------------------------------------------------------------
(* Spec: one BayesianNeuralNetwork object, its train and predict calls *)

OtherIdle == ctor = Idle /\ div = Idle /\ sched = Idle

Init ==
    /\ \E a \in BoundedArgs \cup {ExampleArgs}, ni \in BOOLEAN, no \in BOOLEAN :
          /\ InitAsserts(a.num_steps, a.burn_in_steps, a.batch_size, a.keep_every,
                         a.num_nets)
          /\ self = BNN_init(a.num_steps, a.burn_in_steps, a.batch_size,
                             a.keep_every, a.num_nets, ni, no)
          /\ hist = [NoHist EXCEPT !.num_steps = a.num_steps]
    /\ is_trained = "unset"
    /\ sampled_weights = <<>>
    /\ model = <<>>
    /\ store = <<>>
    /\ stats = NoStats
    /\ pc = "idle"
    /\ epoch = 0
    /\ grad = <<>>
    /\ test_data = <<>>
    /\ network_outputs = <<>>
    /\ result = NoResult
    /\ OtherIdle

\* islice(enumerate(train_loader), self.num_iterations) yields a further item.
LoopContinues(epoch_) == epoch_ < self.num_iterations

\* Control reaches line 359, the statement after the loop: the loop has no
\* further item.
LoopDoneEarly(epoch_) == TRUE   \* line 359 reached from inside the loop
LoopDone(epoch_) == ~LoopContinues(epoch_)

\* self.sampled_weights.clear()
ClearedNot(weights) == weights   \* the list left as it is
Cleared(weights) == <<>>

\* train, lines 263-275: the ensemble is emptied, the data normalized and the
\* statistics stored.
TrainStats(d) ==
    LET nx == zero_mean_unit_var_normalization(d.x, <<>>, <<>>)
        ny == zero_mean_unit_var_normalization(d.y, <<>>, <<>>)
    IN  [x_mean |-> IF self.normalize_input THEN <<nx.mean>> ELSE stats.x_mean,
         x_std  |-> IF self.normalize_input THEN <<nx.std>> ELSE stats.x_std,
         y_mean |-> IF self.normalize_output THEN <<ny.mean>> ELSE stats.y_mean,
         y_std  |-> IF self.normalize_output THEN <<ny.std>> ELSE stats.y_std]

\* train up to the first iteration of its loop (lines 263-306): a fresh
\* network replaces self.model; the storage of the old network and of the
\* emptied ensemble is unreachable and dropped.
TrainBegin ==
    /\ pc = "idle"
    /\ hist.calls < MaxTrainCalls
    /\ \E d \in TrainingSets, r \in Runs :
          /\ stats' = TrainStats(d)
          /\ store' = FreshNetwork(r.w0)
          /\ grad' = r.g
    /\ sampled_weights' = Cleared(sampled_weights)
    /\ model' = [j \in Params |-> j]
    /\ epoch' = 0
    /\ pc' = "train_loop"
    /\ hist' = [hist EXCEPT !.calls = @ + 1, !.last = "running", !.iters = 0, !.kept = 0, !.created = <<>>,
                            !.entry = <<>>, !.used = <<>>]
    /\ result' = NoResult
    /\ UNCHANGED <<self, is_trained, test_data, network_outputs>>
    /\ UNCHANGED <<ctor, div, sched>>

\* train raising before it builds the network: x_train that is not
\* two-dimensional makes line 277 raise, after the ensemble was emptied and
\* the statistics stored.
TrainSetupRaises ==
    /\ pc = "idle"
    /\ hist.calls < MaxTrainCalls
    /\ \E d \in TrainingSets : stats' = TrainStats(d)
    /\ sampled_weights' = Cleared(sampled_weights)
    /\ hist' = [hist EXCEPT !.calls = @ + 1, !.last = "raised", !.iters = 0, !.kept = 0, !.created = <<>>,
                            !.entry = <<>>, !.used = <<>>]
    /\ result' = NoResult
    /\ UNCHANGED <<self, is_trained, model, store, pc, epoch, grad, test_data,
                   network_outputs>>
    /\ UNCHANGED <<ctor, div, sched>>

\* One iteration of the loop (lines 308-356): the optimizer step, then the
\* snapshot when _keep_sample(epoch).
TrainStep ==
    /\ pc = "train_loop"
    /\ LoopContinues(epoch)
    /\ LET stepped == OptimizerStep(store, model, grad)
           snap == Snapshot(stepped, model)
       IN  IF _keep_sample(epoch)
           THEN /\ store' = snap.store
                /\ sampled_weights' = Append(sampled_weights, snap.sample)
                /\ hist' = [hist EXCEPT !.iters = @ + 1, !.kept = @ + 1,
                                        !.created = Append(@, Values(stepped, model))]
           ELSE /\ store' = stepped
                /\ sampled_weights' = sampled_weights
                /\ hist' = [hist EXCEPT !.iters = @ + 1]
    /\ epoch' = epoch + 1
    /\ UNCHANGED <<self, is_trained, model, stats, pc, grad, test_data,
                   network_outputs, result>>
    /\ UNCHANGED <<ctor, div, sched>>

\* The loop is exhausted (islice stops after num_iterations): line 359.
TrainEnd ==
    /\ pc = "train_loop"
    /\ LoopDone(epoch)
    /\ is_trained' = "True"
    /\ hist' = [hist EXCEPT !.completed = @ + 1, !.last = "completed"]
    /\ pc' = "idle"
    /\ UNCHANGED <<self, sampled_weights, model, store, stats, epoch, grad,
                   test_data, network_outputs, result>>
    /\ UNCHANGED <<ctor, div, sched>>

\* An exception leaves the loop before its end (a failing batch, an
\* interrupt): train does not reach line 359.
TrainLoopRaises ==
    /\ pc = "train_loop"
    /\ LoopContinues(epoch)
    /\ pc' = "idle"
    /\ hist' = [hist EXCEPT !.last = "raised"]
    /\ UNCHANGED <<self, is_trained, sampled_weights, model, store, stats, epoch,
                   grad, test_data, network_outputs, result>>
    /\ UNCHANGED <<ctor, div, sched>>

\* predict, line 363: assert self.is_trained.  __init__ never creates the
\* attribute, so reading it on an object no train call has completed on
\* raises AttributeError; a false value would raise AssertionError.
IsTrainedCheck ==
    IF is_trained = "unset" THEN "AttributeError"
    ELSE IF is_trained = "True" THEN "pass"
    ELSE "AssertionError"

PredictNotTrained ==
    /\ pc = "idle"
    /\ hist.predicts < MaxPredictCalls
    /\ IsTrainedCheck # "pass"
    /\ result' = [kind |-> IsTrainedCheck]
    /\ hist' = [hist EXCEPT !.predicts = @ + 1, !.entry = <<>>, !.used = <<>>]
    /\ UNCHANGED <<self, is_trained, sampled_weights, model, store, stats, pc,
                   epoch, grad, test_data, network_outputs>>
    /\ UNCHANGED <<ctor, div, sched>>

\* predict, lines 366-372: the test input, normalized with the stored
\* statistics when normalize_input is set.
NormalizedTestInput(x_test) ==
    IF self.normalize_input
    THEN zero_mean_unit_var_normalization(<<x_test>>, stats.x_mean,
                                          stats.x_std).X_normalized[1]
    ELSE [num |-> x_test, den |-> 1]

EnsembleValues == [k \in DOMAIN sampled_weights |-> Values(store, sampled_weights[k])]

PredictBegin ==
    /\ pc = "idle"
    /\ hist.predicts < MaxPredictCalls
    /\ IsTrainedCheck = "pass"
    /\ \E x_test \in TestInputs : test_data' = NormalizedTestInput(x_test)
    /\ network_outputs' = <<>>
    /\ result' = NoResult
    /\ pc' = "predict_restore"
    /\ hist' = [hist EXCEPT !.predicts = @ + 1, !.used = <<>>,
                            !.entry = <<EnsembleValues, stats>>]
    /\ UNCHANGED <<self, is_trained, sampled_weights, model, store, stats, epoch, grad>>
    /\ UNCHANGED <<ctor, div, sched>>

\* network_predict, line 375: the next sample of the ensemble is written into
\* the live parameters.
NextSample == Len(network_outputs) + 1

PredictRestore ==
    /\ pc = "predict_restore"
    /\ NextSample <= Len(sampled_weights)
    /\ store' = SetNetworkWeights(store, model, sampled_weights[NextSample])
    /\ pc' = "predict_forward"
    /\ UNCHANGED <<self, is_trained, sampled_weights, model, stats, epoch, grad,
                   test_data, network_outputs, result, hist>>
    /\ UNCHANGED <<ctor, div, sched>>

\* network_predict, lines 376-377: the forward pass on the live parameters.
PredictForward ==
    /\ pc = "predict_forward"
    /\ network_outputs' = Append(network_outputs, Forward(store, model, test_data))
    /\ hist' = [hist EXCEPT !.used = Append(@, Values(store, model))]
    /\ pc' = "predict_restore"
    /\ UNCHANGED <<self, is_trained, sampled_weights, model, store, stats, epoch,
                   grad, test_data, result>>
    /\ UNCHANGED <<ctor, div, sched>>

\* np.mean(network_outputs, axis=0): the outputs share the denominator of
\* test_data; over no outputs numpy divides 0 by 0 and returns nan.
EnsembleMean(outputs, t) ==
    [num |-> SumSeq([k \in DOMAIN outputs |-> outputs[k].num]),
     den |-> Len(outputs) * t.den]

\* np.mean((network_outputs - prediction_mean) ** 2, axis=0), as one fraction:
\* (n * sum(o^2) - sum(o)^2) / (n * den)^2.
EnsembleVariance(outputs, t) ==
    LET n == Len(outputs)
        total == SumSeq([k \in DOMAIN outputs |-> outputs[k].num])
        squares == SumSeq([k \in DOMAIN outputs |-> outputs[k].num * outputs[k].num])
    IN  [num |-> n * squares - total * total, den |-> (n * t.den) * (n * t.den)]

\* predict, lines 384-397: aggregate, un-normalize, return.  Nothing checks
\* that there is an output to average.
PredictReturn ==
    /\ pc = "predict_restore"
    /\ NextSample > Len(sampled_weights)
    /\ LET prediction_mean == EnsembleMean(network_outputs, test_data)
           prediction_variance == EnsembleVariance(network_outputs, test_data)
       IN  result' =
             [kind |-> "returned",
              n |-> Len(network_outputs),
              mean |-> IF self.normalize_output
                       THEN zero_mean_unit_var_unnormalization(
                                prediction_mean, stats.y_mean[1], stats.y_std[1])
                       ELSE prediction_mean,
              variance |-> IF self.normalize_output
                           THEN [prediction_variance EXCEPT
                                    !.num = @ * stats.y_std[1] * stats.y_std[1]]
                           ELSE prediction_variance]
    /\ pc' = "idle"
    /\ test_data' = <<>>
    /\ network_outputs' = <<>>
    /\ UNCHANGED <<self, is_trained, sampled_weights, model, store, stats, epoch,
                   grad, hist>>
    /\ UNCHANGED <<ctor, div, sched>>

Next ==
    \/ TrainBegin
    \/ TrainSetupRaises
    \/ TrainStep
    \/ TrainEnd
    \/ TrainLoopRaises
    \/ PredictNotTrained
    \/ PredictBegin
    \/ PredictRestore
    \/ PredictForward
    \/ PredictReturn

Spec == Init /\ [][Next]_vars

----------------------------------------------------------------------------
(* Properties of Spec *)

CeilDiv(a, b) == (a + b - 1) \div b

\* The post-burn-in steps the constructor was asked for.
RequestedSteps == hist.num_steps - self.burn_in_steps

\* The iterations of one train call, and those where _keep_sample is true.
Iterations == 0..(self.num_iterations - 1)
KeptIterations == {i \in Iterations : _keep_sample(i)}

LoopFinished == pc = "train_loop" /\ ~LoopContinues(epoch)

\* C1 as stated: _keep_sample is never true before burn_in_steps, and over the
\* iterations of one train call it is true exactly
\* min(requested_steps // keep_every, num_nets) times.
C1_AsStated ==
    /\ \A i \in Iterations : i < self.burn_in_steps => ~_keep_sample(i)
    /\ LoopFinished => hist.kept = Min(RequestedSteps \div self.keep_every, self.num_nets)

\* C1, amended: _keep_sample is never true before burn_in_steps, and over the
\* iterations of one train call it is true exactly
\* min(ceil(requested_steps / keep_every), num_nets) times: the first
\* post-burn-in iteration is kept, then every keep_every-th one after it.
C1_KeepCount ==
    /\ \A i \in Iterations : i < self.burn_in_steps => ~_keep_sample(i)
    /\ Cardinality(KeptIterations) =
           Min(CeilDiv(RequestedSteps, self.keep_every), self.num_nets)
    /\ LoopFinished =>
           hist.kept = Min(CeilDiv(RequestedSteps, self.keep_every), self.num_nets)

\* A train loop has run to its end under a configuration whose requested steps
\* are not a multiple of keep_every, after a burn-in, and kept more than
\* requested_steps // keep_every samples.
C1_Witness ==
    /\ LoopFinished
    /\ self.burn_in_steps > 0
    /\ RequestedSteps % self.keep_every # 0
    /\ hist.kept > RequestedSteps \div self.keep_every
    /\ hist.kept = CeilDiv(RequestedSteps, self.keep_every)

\* C2 as stated: predict after a completed train run whose keep_every exceeds
\* the requested post-burn-in steps is rejected with an empty-ensemble error,
\* and predict never returns a mean computed over no outputs.
C2_AsStated ==
    /\ (result.kind # "none" /\ hist.last = "completed"
            /\ self.keep_every > RequestedSteps)
          => result.kind = "EmptyEnsembleError"
    /\ result.kind = "returned" => result.n > 0

\* C3: while no train call has run its loop to the end, predict raises and
\* returns nothing; is_trained is set only by a train call whose loop has run
\* all its iterations.
C3_NotTrained ==
    /\ (hist.completed = 0 /\ result.kind # "none")
          => result.kind \in {"AttributeError", "AssertionError"}
    /\ hist.completed = 0 => is_trained = "unset"
    /\ hist.last = "completed" => hist.iters = self.num_iterations
    /\ pc \in {"predict_restore", "predict_forward"} => hist.completed > 0

\* predict has raised on an object whose only train call stopped inside its
\* loop, after at least one iteration.
C3_Witness ==
    /\ result.kind = "AttributeError"
    /\ hist.calls = 1
    /\ hist.last = "raised"
    /\ hist.iters > 0

\* C4: a train call that completes has run exactly
\* burn_in_steps + min(num_steps - burn_in_steps, keep_every * num_nets)
\* iterations, no train call runs more, and the ensemble never holds more than
\* num_nets snapshots.
C4_IterationsAndCap ==
    LET total == self.burn_in_steps
                   + Min(RequestedSteps, self.keep_every * self.num_nets)
    IN  /\ hist.iters <= total
        /\ hist.last = "completed" => hist.iters = total
        /\ Len(sampled_weights) <= self.num_nets

\* A completed train call that the cap cut short, with a full ensemble.
C4_Witness ==
    /\ hist.last = "completed"
    /\ pc = "idle"
    /\ self.keep_every * self.num_nets < RequestedSteps
    /\ hist.iters < hist.num_steps
    /\ Len(sampled_weights) = self.num_nets

\* C5: a train call starts its loop with an empty ensemble and holds one
\* snapshot per iteration run so far for which _keep_sample was true, so after
\* a completed train call the ensemble size is the number of such iterations
\* of one call, however many train calls came before; for the documented
\* example that is 4.
C5_NoAccumulation ==
    /\ pc = "train_loop"
          => Len(sampled_weights) = Cardinality({i \in 0..(epoch - 1) : _keep_sample(i)})
    /\ (hist.last = "completed" /\ pc = "idle")
          => Len(sampled_weights) = Cardinality(KeptIterations)
    /\ (hist.last = "completed" /\ pc = "idle" /\ hist.num_steps = ExampleArgs.num_steps
            /\ self.burn_in_steps = ExampleArgs.burn_in_steps
            /\ self.keep_every = ExampleArgs.keep_every
            /\ self.num_nets = ExampleArgs.num_nets)
          => Len(sampled_weights) = 4

\* The documented example after its second completed train call.
C5_Witness ==
    /\ hist.completed = 2
    /\ hist.last = "completed"
    /\ pc = "idle"
    /\ hist.num_steps = ExampleArgs.num_steps
    /\ self.burn_in_steps = ExampleArgs.burn_in_steps
    /\ self.keep_every = ExampleArgs.keep_every
    /\ Len(sampled_weights) = 4

\* The storage addresses an address tuple uses, as a set.
Addresses(addrs) == {addrs[j] : j \in DOMAIN addrs}

\* C9: every snapshot of the ensemble holds, in parameter order, the values
\* the live parameters had after the optimizer step of its iteration, whatever
\* the optimizer and predict have written since; no snapshot shares storage
\* with the live parameters or with another snapshot.
C9_IndependentSnapshots ==
    /\ Len(hist.created) = Len(sampled_weights)
    /\ \A k \in DOMAIN sampled_weights :
          /\ Values(store, sampled_weights[k]) = hist.created[k]
          /\ Addresses(sampled_weights[k]) \cap Addresses(model) = {}
          /\ Cardinality(Addresses(sampled_weights[k])) = Len(model)
          /\ \A l \in DOMAIN sampled_weights :
                l # k => Addresses(sampled_weights[k]) \cap Addresses(sampled_weights[l]) = {}

\* predict has returned over an ensemble whose first two snapshots differ,
\* leaving the live parameters different from the first snapshot.
C9_Witness ==
    /\ pc = "idle"
    /\ result.kind = "returned"
    /\ Len(sampled_weights) >= 2
    /\ hist.created[1] # hist.created[2]
    /\ Values(store, model) # Values(store, sampled_weights[1])
    /\ Values(store, sampled_weights[1]) = hist.created[1]

\* C10: in predict the k-th forward pass runs while the live parameters equal
\* snapshot k, the k-th output is the network's output under snapshot k, and
\* when predict returns it has produced one output per snapshot, the live
\* parameters equal the last snapshot, and the ensemble and the statistics are
\* as they were when the call began.
C10_RestoreThenForward ==
    /\ pc = "predict_forward"
          => Values(store, model) = Values(store, sampled_weights[NextSample])
    /\ pc \in {"predict_restore", "predict_forward"} =>
          /\ Len(network_outputs) <= Len(sampled_weights)
          /\ Len(hist.used) = Len(network_outputs)
          /\ \A k \in DOMAIN network_outputs :
                /\ network_outputs[k] = Forward(store, sampled_weights[k], test_data)
                /\ hist.used[k] = Values(store, sampled_weights[k])
          /\ hist.entry = <<EnsembleValues, stats>>
    /\ (pc = "idle" /\ result.kind = "returned") =>
          /\ result.n = Len(sampled_weights)
          /\ Len(hist.used) = Len(sampled_weights)
          /\ \A k \in DOMAIN sampled_weights :
                hist.used[k] = Values(store, sampled_weights[k])
          /\ sampled_weights # <<>> =>
                Values(store, model) = Values(store, sampled_weights[Len(sampled_weights)])
          /\ hist.entry = <<EnsembleValues, stats>>

\* predict has returned after restoring two snapshots of different values.
C10_Witness ==
    /\ pc = "idle"
    /\ result.kind = "returned"
    /\ result.n = 2
    /\ hist.used[1] # hist.used[2]
    /\ Values(store, model) = hist.used[2]

----------------------------------------------------------------------------
(* SpecCtor: calls of BayesianNeuralNetwork(...) with arbitrary numbers.    *)
(* Python passes ints and floats alike through the asserts, so an argument *)
(* is written here in halves: 3 stands for 1.5, 4 for the integer 2.       *)

BnnIdle ==
    /\ self = <<>> /\ is_trained = "unset" /\ sampled_weights = <<>>
    /\ model = <<>> /\ store = <<>> /\ stats = NoStats /\ pc = "idle"
    /\ epoch = 0 /\ grad = <<>> /\ test_data = <<>> /\ network_outputs = <<>>
    /\ result = NoResult /\ hist = NoHist

Halves == (-1)..MaxHalves
WholeSteps == {h \in 0..MaxHalves : h % 2 = 0}

CtorArgs ==
    [num_steps : WholeSteps, burn_in_steps : WholeSteps, batch_size : Halves,
     keep_every : Halves, num_nets : Halves]

InitCtor ==
    /\ ctor = [outcome |-> "none"]
    /\ BnnIdle /\ div = Idle /\ sched = Idle

\* __init__ returns: every assert passed and an object exists.
ConstructReturns ==
    /\ \E a \in CtorArgs :
          /\ InitAsserts(a.num_steps, a.burn_in_steps, a.batch_size, a.keep_every,
                         a.num_nets)
          /\ ctor' = [outcome |-> "object", args |-> a]
    /\ UNCHANGED <<bnnVars, div, sched>>

\* __init__ raises AssertionError: no object exists.
ConstructRaises ==
    /\ \E a \in CtorArgs :
          /\ ~InitAsserts(a.num_steps, a.burn_in_steps, a.batch_size, a.keep_every,
                          a.num_nets)
          /\ ctor' = [outcome |-> "AssertionError", args |-> a]
    /\ UNCHANGED <<bnnVars, div, sched>>

NextCtor == ConstructReturns \/ ConstructRaises

SpecCtor == InitCtor /\ [][NextCtor]_vars

\* A number written in halves is a positive integer.
PositiveInteger(h) == h > 0 /\ h % 2 = 0

\* C6 as stated: a constructor call with num_steps <= burn_in_steps, or with a
\* batch_size, keep_every or num_nets that is not a positive integer, raises
\* and produces no object.
C6_AsStated ==
    ctor.outcome # "none" =>
        ((\/ ctor.args.num_steps <= ctor.args.burn_in_steps
          \/ ~PositiveInteger(ctor.args.batch_size)
          \/ ~PositiveInteger(ctor.args.keep_every)
          \/ ~PositiveInteger(ctor.args.num_nets))
            => ctor.outcome = "AssertionError")

----------------------------------------------------------------------------
(* SpecDiv: calls of safe_division on arrays of up to MaxLen elements *)

Elements == (-MaxAbs)..MaxAbs

InitDiv ==
    /\ div = [outcome |-> "none"]
    /\ BnnIdle /\ ctor = Idle /\ sched = Idle

SafeDivisionCall ==
    /\ \E n \in 1..MaxLen :
          \E x \in [1..n -> Elements], y \in [1..n -> Elements] :
             div' = [outcome |-> "returned", x |-> x, y |-> y,
                     z |-> safe_division(x, y, SmallConstant)]
    /\ UNCHANGED <<bnnVars, ctor, sched>>

NextDiv == SafeDivisionCall

SpecDiv == InitDiv /\ [][NextDiv]_vars

\* sign with sign(0) counted as +1
SignPlus(v) == IF v < 0 THEN -1 ELSE 1

\* C7 as stated: safe_division divides every element of x by a nonzero
\* denominator: small_constant when all of y is zero, and otherwise
\* y_i + sign(y_i) * small_constant with sign(0) counted as +1.
C7_AsStated ==
    div.outcome = "returned" =>
        \A i \in DOMAIN div.z :
            /\ div.z[i].num = div.x[i]
            /\ div.z[i].den # 0
            /\ div.z[i].den =
                  (IF \A j \in DOMAIN div.y : div.y[j] = 0
                   THEN SmallConstant
                   ELSE div.y[i] + SignPlus(div.y[i]) * SmallConstant)

----------------------------------------------------------------------------
(* SpecSchedule: one ConstantStepsizeSchedule, its next and update calls *)

\* ConstantStepsizeSchedule.__init__
ConstantStepsizeSchedule_init(constant_value) == [initial_value |-> constant_value]

\* ConstantStepsizeSchedule.__next__: the value returned
ConstantStepsizeSchedule_next(schedule) == schedule.initial_value

\* An update that stores its argument.
ConstantStepsizeSchedule_updateStores(schedule, arg) ==
    [schedule EXCEPT !.initial_value = arg]

\* ConstantStepsizeSchedule.update: the object after the call
ConstantStepsizeSchedule_update(schedule, arg) == schedule

ScheduleValues == 1..MaxScheduleValue

InitSchedule ==
    /\ \E v \in ScheduleValues :
          sched = [schedule |-> ConstantStepsizeSchedule_init(v),
                   constant_value |-> v,   \* the argument of __init__
                   returned |-> <<>>,      \* what the latest next(schedule) returned
                   nexts |-> 0, updates |-> 0]
    /\ BnnIdle /\ ctor = Idle /\ div = Idle

\* next(schedule)
ScheduleNext ==
    /\ sched.nexts < MaxScheduleCalls
    /\ sched' = [sched EXCEPT !.returned = <<ConstantStepsizeSchedule_next(sched.schedule)>>,
                              !.nexts = @ + 1]
    /\ UNCHANGED <<bnnVars, ctor, div>>

\* schedule.update(arg)
ScheduleUpdate ==
    /\ sched.updates < MaxScheduleCalls
    /\ \E arg \in ScheduleValues \cup {0} :
          sched' = [sched EXCEPT
                       !.schedule = ConstantStepsizeSchedule_update(@, arg),
                       !.updates = @ + 1]
    /\ UNCHANGED <<bnnVars, ctor, div>>

NextSchedule == ScheduleNext \/ ScheduleUpdate

SpecSchedule == InitSchedule /\ [][NextSchedule]_vars

\* C8: after any interleaving of next and update calls, initial_value is the
\* value the schedule was built with, every next call has returned it, and the
\* next call returns it too.
C8_ConstantSchedule ==
    /\ sched.schedule.initial_value = sched.constant_value
    /\ sched.nexts > 0 => sched.returned = <<sched.constant_value>>
    /\ ConstantStepsizeSchedule_next(sched.schedule) = sched.constant_value

\* next has returned the value after update calls that passed another value.
C8_Witness ==
    /\ sched.nexts >= 2
    /\ sched.updates >= 2
    /\ sched.returned = <<sched.constant_value>>

====
